---- MODULE Spec2Model ----
(***************************************************************************)
(* Model of src/main.rs: a binary Merkle tree over a vector of values,     *)
(* its padded leaf digests, its root, and inclusion proofs.                *)
(*                                                                         *)
(* Digests are terms of a free algebra: hash_leaf(v) and                   *)
(* hash_siblings(l, r) are injective and have disjoint ranges, which is    *)
(* the "no hash collisions" assumption of the properties checked below.    *)
(* Indices are 0-based as in the source; TLA+ sequences are 1-based, so    *)
(* hashes.get(i) is hashes[i + 1].                                         *)
(***************************************************************************)
EXTENDS Integers, Sequences, FiniteSets

VARIABLES values, out

vars == <<values, out>>

(* Bounds of the model. *)
MaxLen == 4
MaxVal == 1

(* T::default() for the integer leaf type used by main and the tests. *)
Default == 0

Values == 0..MaxVal

(* ---------------------------------------------------------------------- *)
(* Hashing                                                                *)
(* ---------------------------------------------------------------------- *)

hash_leaf(leaf) == <<"leaf", leaf>>

hash_siblings(left, right) == <<"node", left, right>>

(* ---------------------------------------------------------------------- *)
(* leafs                                                                  *)
(* ---------------------------------------------------------------------- *)

RECURSIVE pow2_at_least(_, _)
pow2_at_least(p, n) == IF p >= n THEN p ELSE pow2_at_least(2 * p, n)

(* Mutant: the smallest power of two strictly greater than n. *)
next_power_of_two_above(n) == pow2_at_least(1, n + 1)

(* usize::next_power_of_two: the smallest power of two >= n; 1 for n = 0. *)
next_power_of_two(n) == pow2_at_least(1, n)

(* Mutant: no padding at all. *)
leafs_unpadded(vals) == [k \in 1..Len(vals) |-> hash_leaf(vals[k])]

(* Mutant: padding with a fixed zero digest instead of hash(default). *)
leafs_zero_padding(vals) ==
    LET size == pow2_at_least(1, Len(vals))
    IN  [k \in 1..size |-> IF k <= Len(vals) THEN hash_leaf(vals[k]) ELSE <<"zero">>]

leafs(vals) ==
    LET size   == next_power_of_two(Len(vals))
        empty  == [k \in 1..(size - Len(vals)) |-> Default]
        padded == vals \o empty
    IN  [k \in 1..Len(padded) |-> hash_leaf(padded[k])]

(* ---------------------------------------------------------------------- *)
(* parents: one level of pairwise reduction on the deque                  *)
(* ---------------------------------------------------------------------- *)

(* Mutant: the pair is combined right before left. *)
RECURSIVE parents_loop_swapped(_, _)
parents_loop_swapped(hashes, k) ==
    IF k = 0 THEN hashes
    ELSE LET left   == Head(hashes)
             right  == Head(Tail(hashes))
             parent == hash_siblings(right, left)
         IN  parents_loop_swapped(Append(Tail(Tail(hashes)), parent), k - 1)

RECURSIVE parents_loop(_, _)
parents_loop(hashes, k) ==
    IF k = 0 THEN hashes
    ELSE LET left   == Head(hashes)
             right  == Head(Tail(hashes))
             parent == hash_siblings(left, right)
         IN  parents_loop(Append(Tail(Tail(hashes)), parent), k - 1)

(* panic is TRUE when one of the two assertions fails. *)
parents(hashes) ==
    LET len == Len(hashes)
    IN  IF len % 2 # 0 \/ ~(len > 0)
        THEN [panic |-> TRUE, hashes |-> hashes]
        ELSE [panic |-> FALSE, hashes |-> parents_loop(hashes, len \div 2)]

(* ---------------------------------------------------------------------- *)
(* root                                                                   *)
(* ---------------------------------------------------------------------- *)

(* calls records, for every invocation of parents, the length of the     *)
(* sequence it received and the length it left behind.                    *)
RECURSIVE root_loop(_, _)
root_loop(hashes, calls) ==
    IF Len(hashes) > 1
    THEN LET r == parents(hashes)
             c == Append(calls, [before |-> Len(hashes), after |-> Len(r.hashes)])
         IN  IF r.panic
             THEN [panic |-> TRUE, calls |-> c]
             ELSE root_loop(r.hashes, c)
    ELSE IF Len(hashes) = 0
         THEN [panic |-> TRUE, calls |-> calls]
         ELSE [panic |-> FALSE, value |-> Head(hashes), calls |-> calls]

root(vals) == root_loop(leafs(vals), <<>>)

(* ---------------------------------------------------------------------- *)
(* get_proof                                                              *)
(* ---------------------------------------------------------------------- *)

(* Mutant: the sibling is always the next position. *)
sibling_of_next(index) == index + 1

sibling_of(index) == IF index % 2 = 0 THEN index + 1 ELSE index - 1

(* Mutant: the comparison is the wrong way round. *)
direction_of_swapped(index, sibling) == IF index > sibling THEN "Right" ELSE "Left"

direction_of(index, sibling) == IF index > sibling THEN "Left" ELSE "Right"

(* Mutant: the loop stops one level early. *)
more_levels_above_two(hashes) == Len(hashes) > 2

more_levels(hashes) == Len(hashes) > 1

(* One iteration per level: record the sibling, reduce, halve the index.  *)
(* hashes.get(sibling).unwrap() panics when sibling is outside hashes.     *)
RECURSIVE proof_loop(_, _, _, _)
proof_loop(hashes, index, path, calls) ==
    IF more_levels(hashes)
    THEN LET sibling   == sibling_of(index)
             direction == direction_of(index, sibling)
         IN  IF ~(sibling >= 0 /\ sibling < Len(hashes))
             THEN [panic |-> TRUE, path |-> path, calls |-> calls]
             ELSE LET value == hashes[sibling + 1]
                      step  == [direction |-> direction, value |-> value]
                      r     == parents(hashes)
                      c     == Append(calls, [before |-> Len(hashes),
                                              after  |-> Len(r.hashes)])
                  IN  IF r.panic
                      THEN [panic |-> TRUE, path |-> Append(path, step), calls |-> c]
                      ELSE proof_loop(r.hashes, index \div 2, Append(path, step), c)
    ELSE [panic |-> FALSE, path |-> path, calls |-> calls]

(* Mutant: the index is checked against the stored values, not the leafs. *)
index_in_values(vals, index) == index < Len(vals)

index_in_bounds(vals, index) == index < Len(leafs(vals))

(* status: "err" is Err("index out of bounds"), "ok" carries the proof,   *)
(* "panic" is an unwrap or assertion failure on the way.                  *)
get_proof(vals, index) ==
    LET hashes == leafs(vals)
    IN  IF ~index_in_bounds(vals, index)
        THEN [status |-> "err"]
        ELSE LET leaf == hashes[index + 1]
                 r    == root(vals)
             IN  IF r.panic
                 THEN [status |-> "panic", calls |-> r.calls]
                 ELSE LET l == proof_loop(hashes, index, <<>>, <<>>)
                      IN  IF l.panic
                          THEN [status |-> "panic", calls |-> l.calls]
                          ELSE [status |-> "ok",
                                proof  |-> [path |-> l.path,
                                            root |-> r.value,
                                            leaf |-> leaf],
                                calls  |-> r.calls \o l.calls]

(* ---------------------------------------------------------------------- *)
(* verify_proof                                                           *)
(* ---------------------------------------------------------------------- *)

(* Mutant: the direction is ignored. *)
verify_step_unordered(acc, step) == hash_siblings(acc, step.value)

verify_step(acc, step) ==
    IF step.direction = "Left"
    THEN hash_siblings(step.value, acc)
    ELSE hash_siblings(acc, step.value)

(* The accumulator after the first k steps of path. *)
RECURSIVE fold_path(_, _, _)
fold_path(acc, path, k) ==
    IF k = 0 THEN acc
    ELSE verify_step(fold_path(acc, path, k - 1), path[k])

verify_proof(p) == p.root = fold_path(p.leaf, p.path, Len(p.path))

(* ---------------------------------------------------------------------- *)
(* State machine                                                          *)
(*                                                                        *)
(* values is the tree's vector; out is what the latest call returned.     *)
(* A returned proof is plain data owned by the caller: while it is the    *)
(* latest result the caller may change one thing in it (tamper says       *)
(* which) and hand it to verify_proof.                                    *)
(* ---------------------------------------------------------------------- *)

RECURSIVE SeqsUpTo(_, _)
SeqsUpTo(S, n) ==
    IF n = 0 THEN {<<>>}
    ELSE LET shorter == SeqsUpTo(S, n - 1)
         IN  shorter \cup {Append(s, v) : s \in {t \in shorter : Len(t) = n - 1}, v \in S}

NoTamper == [kind |-> "none"]

(* MerkleTree::from(values): any initial vector. *)
Init ==
    /\ values \in SeqsUpTo(Values, MaxLen)
    /\ out = [op |-> "from"]

Add(value) ==
    /\ Len(values) < MaxLen
    /\ values' = Append(values, value)
    /\ out' = [op |-> "add", value |-> value]

Leafs ==
    /\ out' = [op |-> "leafs", value |-> leafs(values)]
    /\ UNCHANGED values

Root ==
    /\ out' = [op |-> "root", res |-> root(values)]
    /\ UNCHANGED values

GetProof(index) ==
    LET r == get_proof(values, index)
    IN  /\ out' = IF r.status = "ok"
                  THEN [op |-> "get_proof", index |-> index, status |-> "ok",
                        calls |-> r.calls, proof |-> r.proof, tamper |-> NoTamper]
                  ELSE [op |-> "get_proof", index |-> index, status |-> r.status]
        /\ UNCHANGED values

HoldsProof == out.op = "get_proof" /\ out.status = "ok"

VerifyProof ==
    /\ HoldsProof
    /\ out' = [op |-> "verify_proof", proof |-> out.proof, tamper |-> out.tamper,
               index |-> out.index, value |-> verify_proof(out.proof)]
    /\ UNCHANGED values

Untampered == HoldsProof /\ out.tamper = NoTamper

(* The digests a holder may write into a proof. *)
TamperDigests(p) ==
    {p.leaf, p.root, hash_leaf(Default), hash_siblings(p.leaf, p.leaf)}
        \cup {p.path[k].value : k \in 1..Len(p.path)}

Candidates == IF HoldsProof THEN TamperDigests(out.proof) ELSE {}

Other(direction) == IF direction = "Left" THEN "Right" ELSE "Left"

TamperStepValue(k, d) ==
    /\ Untampered
    /\ k \in 1..Len(out.proof.path)
    /\ d # out.proof.path[k].value
    /\ out' = [out EXCEPT !.proof.path[k].value = d,
                          !.tamper = [kind |-> "value", step |-> k]]
    /\ UNCHANGED values

TamperStepDirection(k) ==
    /\ Untampered
    /\ k \in 1..Len(out.proof.path)
    /\ out' = [out EXCEPT !.proof.path[k].direction = Other(@),
                          !.tamper = [kind |-> "direction", step |-> k]]
    /\ UNCHANGED values

TamperLeaf(d) ==
    /\ Untampered
    /\ d # out.proof.leaf
    /\ out' = [out EXCEPT !.proof.leaf = d, !.tamper = [kind |-> "leaf"]]
    /\ UNCHANGED values

TamperRoot(d) ==
    /\ Untampered
    /\ d # out.proof.root
    /\ out' = [out EXCEPT !.proof.root = d, !.tamper = [kind |-> "root"]]
    /\ UNCHANGED values

MaxIndex == next_power_of_two(MaxLen)

MaxSteps == MaxLen

Next ==
    \/ \E v \in Values : Add(v)
    \/ Leafs
    \/ Root
    \/ \E i \in 0..MaxIndex : GetProof(i)
    \/ VerifyProof
    \/ \E k \in 1..MaxSteps, d \in Candidates : TamperStepValue(k, d)
    \/ \E k \in 1..MaxSteps : TamperStepDirection(k)
    \/ \E d \in Candidates : TamperLeaf(d)
    \/ \E d \in Candidates : TamperRoot(d)

Spec == Init /\ [][Next]_vars

(* ---------------------------------------------------------------------- *)
(* Reference definitions used to state the properties                     *)
(* ---------------------------------------------------------------------- *)

IsPow2(p) == \E e \in 0..p : p = 2 ^ e

(* The least power of two that is >= n. *)
PaddedCount(n) ==
    CHOOSE p \in 1..(2 * n + 1) :
        /\ IsPow2(p)
        /\ p >= n
        /\ \A q \in 1..(p - 1) : IsPow2(q) => q < n

(* The least power of two that is > n. *)
LeastPow2Above(n) ==
    CHOOSE p \in 1..(2 * n + 2) :
        /\ IsPow2(p)
        /\ p > n
        /\ \A q \in 1..(p - 1) : IsPow2(q) => q <= n

Log2(p) == CHOOSE e \in 0..p : 2 ^ e = p

(* The digest at 0-based position j of level k of the tree over vals,     *)
(* level 0 being the padded leaves.                                       *)
RECURSIVE Node(_, _, _)
Node(vals, k, j) ==
    IF k = 0
    THEN IF j < Len(vals) THEN hash_leaf(vals[j + 1]) ELSE hash_leaf(Default)
    ELSE hash_siblings(Node(vals, k - 1, 2 * j), Node(vals, k - 1, 2 * j + 1))

L == PaddedCount(Len(values))

Height == Log2(L)

MerkleRoot == Node(values, Height, 0)

GenuineProof == out.op = "get_proof" /\ out.status = "ok" /\ out.tamper = NoTamper

(* The reducer calls of one full reduction of n digests. *)
ExpectedCalls(n) ==
    [j \in 1..Log2(n) |-> [before |-> n \div (2 ^ (j - 1)), after |-> n \div (2 ^ j)]]

(* ---------------------------------------------------------------------- *)
(* Properties                                                             *)
(* ---------------------------------------------------------------------- *)

(* C1: round trip. For every tree and every index below the padded leaf   *)
(* count (padding positions included) get_proof succeeds, and             *)
(* verify_proof accepts the proof it returned.                            *)
C1_RoundTrip ==
    /\ (out.op = "get_proof" /\ out.index < L) => out.status = "ok"
    /\ (out.op = "verify_proof" /\ out.tamper = NoTamper) => out.value = TRUE

C1_Witness ==
    /\ out.op = "verify_proof" /\ out.tamper = NoTamper
    /\ out.value = TRUE
    /\ Len(values) = 3 /\ out.index = 3
    /\ Len(out.proof.path) = 2

(* C4: bounds check. get_proof(i) is the out-of-range error exactly when  *)
(* i >= L and a proof exactly when i < L, padding positions and L - 1     *)
(* included.                                                              *)
C4_BoundsCheck ==
    out.op = "get_proof" =>
        /\ out.index >= L => out.status = "err"
        /\ out.index < L => out.status = "ok"

C4_Witness ==
    /\ out.op = "get_proof" /\ out.status = "err"
    /\ Len(values) = 3 /\ out.index = L

(* C5: root stability. The root recorded in a proof equals root() on the  *)
(* same tree, and both equal the digest obtained by pairwise combining    *)
(* the padded leaves in order, level by level.                            *)
C5_RootStability ==
    /\ out.op = "root" => (~out.res.panic /\ out.res.value = MerkleRoot)
    /\ GenuineProof =>
          /\ ~root(values).panic
          /\ out.proof.root = root(values).value
          /\ out.proof.root = MerkleRoot

C5_Witness ==
    /\ GenuineProof
    /\ Len(values) = 3 /\ out.index = 1
    /\ out.proof.root = MerkleRoot

(* C6: leaf materializer. leafs() returns exactly the least power of two  *)
(* >= n digests (1 for n = 0, 2 for n = 2, 4 for n = 3): hash(value_k)    *)
(* for the stored values in order, hash(default) for the rest.            *)
C6_LeafMaterializer ==
    out.op = "leafs" =>
        LET n == Len(values)
        IN  /\ Len(out.value) = PaddedCount(n)
            /\ Len(out.value) >= 1
            /\ n = 0 => Len(out.value) = 1
            /\ n = 2 => Len(out.value) = 2
            /\ n = 3 => Len(out.value) = 4
            /\ \A k \in 1..Len(out.value) :
                  out.value[k] = IF k <= n THEN hash_leaf(values[k])
                                           ELSE hash_leaf(Default)

C6_Witness ==
    /\ out.op = "leafs"
    /\ Len(values) = 3 /\ Len(out.value) = 4
    /\ out.value[4] = hash_leaf(Default)

(* C7: the documentation of leafs(): the number of leafs always equals    *)
(* the smallest power of two that is greater than the number of values.   *)
C7_DocLeafCount ==
    out.op = "leafs" => Len(out.value) = LeastPow2Above(Len(values))

(* C8: path length. A proof's path has exactly log2(L) steps; when L = 1  *)
(* (0 or 1 values) the path is empty and the leaf digest is the root.     *)
C8_PathLength ==
    GenuineProof =>
        /\ Len(out.proof.path) = Log2(L)
        /\ (L = 1) <=> (Len(values) <= 1)
        /\ L = 1 => (out.proof.path = <<>> /\ out.proof.leaf = out.proof.root)

C8_Witness ==
    /\ GenuineProof
    /\ Len(values) = 4
    /\ Len(out.proof.path) = 2

(* C9: the reducer's precondition. In root() and get_proof() every call   *)
(* of parents receives a power-of-two length >= 2 and halves it, each     *)
(* reduction ends with one digest, and no assertion or unwrap fails.      *)
GoodCalls(calls) ==
    \A i \in 1..Len(calls) :
        /\ IsPow2(calls[i].before)
        /\ calls[i].before >= 2
        /\ 2 * calls[i].after = calls[i].before

C9_ReducerPrecondition ==
    /\ out.op = "root" =>
          /\ ~out.res.panic
          /\ GoodCalls(out.res.calls)
          /\ out.res.calls = ExpectedCalls(L)
    /\ out.op = "get_proof" =>
          /\ out.status # "panic"
          /\ out.status = "ok" =>
                /\ GoodCalls(out.calls)
                /\ out.calls = ExpectedCalls(L) \o ExpectedCalls(L)

C9_Witness ==
    /\ out.op = "root"
    /\ Len(values) = 3
    /\ out.res.calls = <<[before |-> 4, after |-> 2], [before |-> 2, after |-> 1]>>

(* C10: sibling and direction rule. The step recorded at level k is Left  *)
(* exactly when floor(i / 2^k) is odd, and carries the level-k digest at  *)
(* the neighbouring position, which always lies inside level k.           *)
C10_SiblingRule ==
    /\ (out.op = "get_proof" /\ out.index < L) => out.status = "ok"
    /\ GenuineProof =>
          \A k \in 0..(Len(out.proof.path) - 1) :
              LET pos  == out.index \div (2 ^ k)
                  sib  == IF pos % 2 = 0 THEN pos + 1 ELSE pos - 1
                  step == out.proof.path[k + 1]
              IN  /\ (step.direction = "Left") <=> (pos % 2 = 1)
                  /\ (step.direction = "Right") <=> (pos % 2 = 0)
                  /\ sib >= 0 /\ sib < L \div (2 ^ k)
                  /\ step.value = Node(values, k, sib)

C10_Witness ==
    /\ GenuineProof
    /\ Len(values) = 4 /\ out.index = 2
    /\ out.proof.path[1].direction = "Right"
    /\ out.proof.path[2].direction = "Left"

(* C2: sensitivity, as claimed. Appending any value, the default value    *)
(* included, changes root(); a proof taken just before the add records a  *)
(* root that differs from root() after it.                                *)
C2_Sensitivity ==
    [][values' # values =>
          /\ root(values').value # root(values).value
          /\ GenuineProof => out.proof.root # root(values').value]_vars

(* The appended value lands on a padding leaf and equals the padding.     *)
AddsOntoPadding == out'.value = Default /\ ~IsPow2(Len(values))

(* C2, amended: appending a value changes root() unless the value is the  *)
(* default value and the number of stored values before the add is not a  *)
(* power of two (0, 3, 5, 6, 7, ...); in that case the root is unchanged. *)
C2_SensitivityUnlessPadding ==
    [][values' # values =>
          /\ (root(values').value = root(values).value) <=> AddsOntoPadding
          /\ GenuineProof =>
                ((out.proof.root = root(values').value) <=> AddsOntoPadding)]_vars

C2_Witness ==
    /\ out.op = "add" /\ out.value = Default
    /\ Len(values) = 3
    /\ root(values).value # root(SubSeq(values, 1, 2)).value

(* C3: tamper detection, as claimed. Changing one step's digest, one      *)
(* step's direction, the leaf or the root of a returned proof makes       *)
(* verify_proof return false.                                             *)
C3_TamperDetection ==
    (out.op = "verify_proof" /\ out.tamper # NoTamper) => out.value = FALSE

(* The tracked node and its sibling carry the same digest at step k.      *)
TwinsAt(k) ==
    LET pos == out.index \div (2 ^ (k - 1))
        sib == IF pos % 2 = 0 THEN pos + 1 ELSE pos - 1
    IN  Node(values, k - 1, pos) = Node(values, k - 1, sib)

(* C3, amended: the change makes verify_proof return false, except the    *)
(* flip of the direction of a step at which the node on the path and its  *)
(* sibling carry the same digest (equal values or padding below both):    *)
(* that proof is still accepted.                                          *)
C3_TamperDetectionUnlessTwins ==
    (out.op = "verify_proof" /\ out.tamper # NoTamper) =>
        ((out.value = TRUE) <=>
            (out.tamper.kind = "direction" /\ TwinsAt(out.tamper.step)))

C3_Witness ==
    /\ out.op = "verify_proof"
    /\ out.tamper = [kind |-> "direction", step |-> 2]
    /\ out.value = FALSE
    /\ Len(values) = 3

====
